---- MODULE Spec2Model ----
(***************************************************************************)
(* Guest book API (moabdelazem/app): the request path                      *)
(*   handler -> service (validation, pagination) -> repository -> store.   *)
(* Every HTTP handler is one atomic action.  The choices the environment   *)
(* makes while a request is served (outcome of each store statement, the   *)
(* order of rows with equal created_at) are part of the recorded request.  *)
(* A client sends one request at a time: req, resp and calls describe the  *)
(* request being answered until RequestCompleted hands the response over.  *)
(*                                                                         *)
(* The process around it (main, Server.Start, Server.Shutdown, the         *)
(* connection pool and the requests in flight) is the second              *)
(* specification, ProcessSpec: there a handler is split at its store      *)
(* statements, and server, pool and inflight describe the process.        *)
(***************************************************************************)
EXTENDS Integers, Sequences, FiniteSets, Bags, TLC

VARIABLES store, nextID, now, req, resp, calls, returned,
          server, pool, inflight, schema

\* the request path
pathVars == <<store, nextID, now, req, resp, calls, returned>>

\* the process: main's position and the Server fields, the pgx pool, the
\* bag of requests being served
procVars == <<server, pool, inflight>>

vars ==
    <<store, nextID, now, req, resp, calls, returned, server, pool, inflight,
      schema>>

(***************************************************************************)
(* Bounds of the model.                                                    *)
(***************************************************************************)
\* rows the table may hold in the model
MaxRows == 2
\* ticks of the store clock (NOW())
MaxClock == 1
\* Go's int is 64 bits wide; the model keeps two's-complement wrap-around
\* but scales the width so that (page-1)*pageSize can be enumerated.
IntBits == 12
\* requests the server serves at the same time
MaxInflight == 2
\* poolConfig.MaxConns is 25; the model scales the pool so that the requests
\* in flight can use it up
MaxConns == 1

(***************************************************************************)
(* Program constants.                                                      *)
(***************************************************************************)
NameMin == 2
NameMax == 100
EmailMax == 255
MessageMin == 10
MessageMax == 1000
PageSizeMax == 100
DefaultPageSize == 10
VarcharName == 100
VarcharEmail == 255

StatusOK == 200
StatusCreated == 201
StatusBadRequest == 400
StatusNotFound == 404
StatusMethodNotAllowed == 405
StatusInternalServerError == 500
StatusNoContent == 204
StatusServiceUnavailable == 503

(***************************************************************************)
(* Machine integers.                                                       *)
(***************************************************************************)
RECURSIVE Pow2(_)
Pow2(n) == IF n = 0 THEN 1 ELSE 2 * Pow2(n - 1)

MaxInt == Pow2(IntBits - 1) - 1
MinInt == 0 - Pow2(IntBits - 1)

\* two's-complement result of an int operation whose exact value is x
WrapInt(x) ==
    LET m == x % Pow2(IntBits)
    IN  IF m > MaxInt THEN m - Pow2(IntBits) ELSE m

(***************************************************************************)
(* Strings.  A text field is a run of n copies of one character; Go's      *)
(* len() counts the bytes of the UTF-8 encoding, not the characters.       *)
(***************************************************************************)
Repeat(c, n) == [ch |-> c, n |-> n]

Utf8Len(c) == IF c = "e_acute" THEN 2 ELSE 1

\* len(s) of a Go string: bytes
len(s) == s.n * Utf8Len(s.ch)

\* number of characters (code points) of the string
RuneCount(s) == s.n

EmptyString == Repeat("A", 0)

(***************************************************************************)
(* strconv.Atoi / strconv.Itoa on decimal text (a sequence of characters). *)
(***************************************************************************)
Digits == <<"0", "1", "2", "3", "4", "5", "6", "7", "8", "9">>

IsDigit(c) == \E i \in 1..10 : Digits[i] = c

DigitVal(c) == (CHOOSE i \in 1..10 : Digits[i] = c) - 1

RECURSIVE AllDigits(_)
AllDigits(s) == IF s = <<>> THEN TRUE ELSE IsDigit(Head(s)) /\ AllDigits(Tail(s))

\* magnitude of a digit string; every value beyond the int range is kept as
\* MaxInt + 2, which is all the range check needs
RECURSIVE Magnitude(_, _)
Magnitude(s, acc) ==
    IF s = <<>> THEN acc
    ELSE LET v == acc * 10 + DigitVal(Head(s))
         IN  Magnitude(Tail(s), IF v > MaxInt + 2 THEN MaxInt + 2 ELSE v)

\* strconv.Atoi: syntax error -> (0, err); out of range -> (nearest, err)
Atoi(s) ==
    LET signed == s # <<>> /\ Head(s) \in {"-", "+"}
        body   == IF signed THEN Tail(s) ELSE s
        neg    == signed /\ Head(s) = "-"
    IN  IF body = <<>> \/ ~AllDigits(body)
        THEN [val |-> 0, err |-> TRUE]
        ELSE LET m == Magnitude(body, 0)
             IN  IF neg
                 THEN IF m > MaxInt + 1
                      THEN [val |-> MinInt, err |-> TRUE]
                      ELSE [val |-> 0 - m, err |-> FALSE]
                 ELSE IF m > MaxInt
                      THEN [val |-> MaxInt, err |-> TRUE]
                      ELSE [val |-> m, err |-> FALSE]

RECURSIVE ItoaNat(_)
ItoaNat(n) ==
    IF n < 10 THEN <<Digits[n + 1]>>
    ELSE Append(ItoaNat(n \div 10), Digits[(n % 10) + 1])

\* strconv.Itoa
Itoa(n) == IF n < 0 THEN <<"-">> \o ItoaNat(0 - n) ELSE ItoaNat(n)

(***************************************************************************)
(* Go values: errors, slices, JSON values.                                 *)
(***************************************************************************)
\* an error is the sequence of the parts of its text; nil is the empty one
NilError == <<>>

\* fmt.Errorf(prefix + "%w", err)
Errorf(prefix, err) == <<prefix>> \o err

\* var s []T (nil) and append(s, x)
NilSlice == [isNil |-> TRUE, elems |-> <<>>]

EmptySlice == [isNil |-> FALSE, elems |-> <<>>]

AppendSlice(s, x) == [isNil |-> FALSE, elems |-> Append(s.elems, x)]

RECURSIVE AppendAll(_, _)
AppendAll(s, xs) ==
    IF xs = <<>> THEN s ELSE AppendAll(AppendSlice(s, Head(xs)), Tail(xs))

\* a member of the JSON object of a request body
JString(s) == [t |-> "string", s |-> s]
JAbsent == [t |-> "absent", s |-> EmptyString]
JNumber == [t |-> "number", s |-> EmptyString]

\* models.CreateGuestBookMessage
models_CreateGuestBookMessage(n, e, m) == [Name |-> n, Email |-> e, Message |-> m]

\* models.GuestBookMessage
models_GuestBookMessage(i, n, e, m, c, u) ==
    [ID |-> i, Name |-> n, Email |-> e, Message |-> m,
     CreatedAt |-> c, UpdatedAt |-> u]

\* var msg models.GuestBookMessage (the zero value)
ZeroMessage == models_GuestBookMessage(0, EmptyString, EmptyString, EmptyString, 0, 0)

\* one recorded invocation of a component while a request is served
Call(layer, fn, err) == [layer |-> layer, fn |-> fn, err |-> err]

(***************************************************************************)
(* Message store: the table guest_book_messages and its id sequence.       *)
(***************************************************************************)
Min(a, b) == IF a < b THEN a ELSE b

\* the orders in which ORDER BY created_at DESC may deliver the rows:
\* every permutation that is descending in created_at (ties are free)
Orders(table) ==
    LET n == Len(table)
    IN  { p \in [1..n -> 1..n] :
            /\ \A i, j \in 1..n : i # j => p[i] # p[j]
            /\ \A i \in 1..n : \A j \in 1..n :
                 i < j => table[p[i]].CreatedAt >= table[p[j]].CreatedAt }

\* the database the process connects to: whether the table and its id
\* sequence exist, the rows, the next value of the sequence
Database(exists, table, seq) == [schema |-> exists, table |-> table, seq |-> seq]

\* CreateTable with a plain CREATE TABLE / CREATE INDEX
CreateTable_WithoutIfNotExists(db, out) ==
    IF out # NilError
    THEN [db |-> db,
          err |-> Errorf("failed to create guest_book_messages table: ", out)]
    ELSE IF db.schema
    THEN [db |-> db,
          err |-> Errorf("failed to create guest_book_messages table: ",
                         <<"relation \"guest_book_messages\" already exists">>)]
    ELSE [db |-> Database(TRUE, <<>>, 1), err |-> NilError]

\* GuestBookRepository.CreateTable: CREATE TABLE IF NOT EXISTS and CREATE
\* INDEX IF NOT EXISTS in one Exec; an existing table is left as it is
CreateTable(db, out) ==
    IF out # NilError
    THEN [db |-> db,
          err |-> Errorf("failed to create guest_book_messages table: ", out)]
    ELSE IF db.schema
    THEN [db |-> db, err |-> NilError]
    ELSE [db |-> Database(TRUE, <<>>, 1), err |-> NilError]

\* Create with an id sequence that is not advanced by a successful insert
Create_SequenceNotAdvanced(table, seq, clock, msg, out) ==
    IF out # NilError
    THEN [msg |-> ZeroMessage,
          err |-> Errorf("failed to create guest book message: ", out),
          table |-> table, seq |-> seq]
    ELSE LET row == models_GuestBookMessage(seq, msg.Name, msg.Email, msg.Message,
                                     clock, clock)
         IN  [msg |-> row, err |-> NilError,
              table |-> Append(table, row), seq |-> seq]

\* Create as an upsert on the email column: a row with the same email is
\* overwritten in place (INSERT ... ON CONFLICT (email) DO UPDATE)
Create_Upsert(table, seq, clock, msg, out) ==
    IF out # NilError
    THEN [msg |-> ZeroMessage,
          err |-> Errorf("failed to create guest book message: ", out),
          table |-> table, seq |-> seq]
    ELSE IF \E i \in 1..Len(table) : table[i].Email = msg.Email
    THEN LET i   == CHOOSE k \in 1..Len(table) : table[k].Email = msg.Email
             row == models_GuestBookMessage(table[i].ID, msg.Name, msg.Email,
                                            msg.Message, table[i].CreatedAt, clock)
         IN  [msg |-> row, err |-> NilError,
              table |-> [table EXCEPT ![i] = row], seq |-> seq + 1]
    ELSE LET row == models_GuestBookMessage(seq, msg.Name, msg.Email, msg.Message,
                                     clock, clock)
         IN  [msg |-> row, err |-> NilError,
              table |-> Append(table, row), seq |-> seq + 1]

\* Create with the entity read back by a second query for the newest row
\* instead of RETURNING
Create_ReturnsNewestRow(table, seq, clock, msg, out) ==
    IF out # NilError
    THEN [msg |-> ZeroMessage,
          err |-> Errorf("failed to create guest book message: ", out),
          table |-> table, seq |-> seq]
    ELSE IF RuneCount(msg.Name) > VarcharName \/ RuneCount(msg.Email) > VarcharEmail
    THEN [msg |-> ZeroMessage,
          err |-> Errorf("failed to create guest book message: ",
                         <<"value too long for type character varying">>),
          table |-> table, seq |-> seq + 1]
    ELSE LET row == models_GuestBookMessage(seq, msg.Name, msg.Email, msg.Message,
                                     clock, clock)
             rows == Append(table, row)
             newest == CHOOSE i \in 1..Len(rows) :
                         /\ \A j \in 1..Len(rows) :
                              rows[i].CreatedAt >= rows[j].CreatedAt
                         /\ \A j \in 1..(i - 1) :
                              rows[j].CreatedAt < rows[i].CreatedAt
         IN  [msg |-> rows[newest], err |-> NilError,
              table |-> rows, seq |-> seq + 1]

\* GuestBookRepository.Create: INSERT ... RETURNING
\* out is the driver error of the statement (NilError when it runs)
Create(table, seq, clock, msg, out) ==
    IF out # NilError
    THEN [msg |-> ZeroMessage,
          err |-> Errorf("failed to create guest book message: ", out),
          table |-> table, seq |-> seq]
    ELSE IF RuneCount(msg.Name) > VarcharName \/ RuneCount(msg.Email) > VarcharEmail
    THEN \* value too long for type character varying: the row is refused,
         \* the sequence value drawn for it is not given back
         [msg |-> ZeroMessage,
          err |-> Errorf("failed to create guest book message: ",
                         <<"value too long for type character varying">>),
          table |-> table, seq |-> seq + 1]
    ELSE LET row == models_GuestBookMessage(seq, msg.Name, msg.Email, msg.Message,
                                     clock, clock)
         IN  [msg |-> row, err |-> NilError,
              table |-> Append(table, row), seq |-> seq + 1]

\* GuestBookRepository.GetAll: SELECT ... ORDER BY created_at DESC LIMIT OFFSET
GetAll(table, order, limit, offset, out) ==
    IF out # NilError
    THEN [messages |-> NilSlice,
          err |-> Errorf("failed to get guest book messages: ", out)]
    ELSE IF limit < 0
    THEN [messages |-> NilSlice,
          err |-> Errorf("failed to get guest book messages: ",
                         <<"LIMIT must not be negative">>)]
    ELSE IF offset < 0
    THEN [messages |-> NilSlice,
          err |-> Errorf("failed to get guest book messages: ",
                         <<"OFFSET must not be negative">>)]
    ELSE LET n    == Len(table)
             rows == [i \in 1..n |-> table[order[i]]]
             page == SubSeq(rows, offset + 1, Min(n, offset + limit))
         IN  [messages |-> AppendAll(NilSlice, page), err |-> NilError]

\* GetByID scanning the name and email columns into each other's field
GetByID_SwappedScan(table, id, out) ==
    IF out # NilError
    THEN [msg |-> ZeroMessage, found |-> FALSE,
          err |-> Errorf("failed to get guest book message: ", out)]
    ELSE IF \E i \in 1..Len(table) : table[i].ID = id
    THEN LET row == table[CHOOSE i \in 1..Len(table) : table[i].ID = id]
         IN  [msg |-> [row EXCEPT !.Name = row.Email, !.Email = row.Name],
              found |-> TRUE, err |-> NilError]
    ELSE [msg |-> ZeroMessage, found |-> FALSE,
          err |-> <<"guest book message not found">>]

\* GuestBookRepository.GetByID: SELECT ... WHERE id = $1
GetByID(table, id, out) ==
    IF out # NilError
    THEN [msg |-> ZeroMessage,
          found |-> FALSE,
          err |-> Errorf("failed to get guest book message: ", out)]
    ELSE IF \E i \in 1..Len(table) : table[i].ID = id
    THEN [msg |-> table[CHOOSE i \in 1..Len(table) : table[i].ID = id],
          found |-> TRUE, err |-> NilError]
    ELSE [msg |-> ZeroMessage,
          found |-> FALSE, err |-> <<"guest book message not found">>]

\* GuestBookRepository.Count: SELECT COUNT(*)
Count(table, out) ==
    IF out # NilError
    THEN [count |-> 0,
          err |-> Errorf("failed to count guest book messages: ", out)]
    ELSE [count |-> Len(table), err |-> NilError]

\* DB.Health: Pool.Ping
Health(out) == out

(***************************************************************************)
(* Service layer (GuestBookService).                                       *)
(***************************************************************************)
\* GuestBookService.validateCreateMessage
validateCreateMessage(msg) ==
    IF len(msg.Name) < NameMin \/ len(msg.Name) > NameMax
    THEN <<"name must be between 2 and 100 characters">>
    ELSE IF len(msg.Email) = 0 \/ len(msg.Email) > EmailMax
    THEN <<"email must be between 1 and 255 characters">>
    ELSE IF len(msg.Message) < MessageMin \/ len(msg.Message) > MessageMax
    THEN <<"message must be between 10 and 1000 characters">>
    ELSE NilError

\* CreateMessage with the insert issued before the draft is validated
CreateMessage_InsertFirst(table, seq, clock, msg, out) ==
    LET verr == validateCreateMessage(msg)
        r    == Create(table, seq, clock, msg, out)
    IN  [msg |-> IF verr # NilError THEN ZeroMessage ELSE r.msg,
         err |-> IF verr # NilError THEN verr ELSE r.err,
         table |-> r.table, seq |-> r.seq,
         calls |-> <<Call("repository", "Create", r.err)>>]

\* GuestBookService.CreateMessage
CreateMessage(table, seq, clock, msg, out) ==
    LET verr == validateCreateMessage(msg)
    IN  IF verr # NilError
        THEN [msg |-> ZeroMessage, err |-> verr, table |-> table, seq |-> seq,
              calls |-> <<>>]
        ELSE LET r == Create(table, seq, clock, msg, out)
             IN  [msg |-> r.msg, err |-> r.err, table |-> r.table, seq |-> r.seq,
                  calls |-> <<Call("repository", "Create", r.err)>>]

\* GetMessages going on to Count after GetAll has failed and handing back
\* what it has
GetMessages_CountAfterFailure(table, order, page0, pageSize0, out1, out2) ==
    LET page     == IF page0 < 1 THEN 1 ELSE page0
        pageSize == IF pageSize0 < 1 \/ pageSize0 > PageSizeMax
                    THEN DefaultPageSize ELSE pageSize0
        offset   == WrapInt((page - 1) * pageSize)
        r        == GetAll(table, order, pageSize, offset, out1)
        c        == Count(table, out2)
    IN  [messages |-> r.messages, total |-> c.count,
         err |-> IF r.err # NilError THEN r.err ELSE c.err,
         calls |-> <<Call("repository", "GetAll", r.err),
                     Call("repository", "Count", c.err)>>]

\* GuestBookService.GetMessages
GetMessages(table, order, page0, pageSize0, out1, out2) ==
    LET page     == IF page0 < 1 THEN 1 ELSE page0
        pageSize == IF pageSize0 < 1 \/ pageSize0 > PageSizeMax
                    THEN DefaultPageSize ELSE pageSize0
        offset   == WrapInt((page - 1) * pageSize)
        r        == GetAll(table, order, pageSize, offset, out1)
        c        == Count(table, out2)
    IN  IF r.err # NilError
        THEN [messages |-> NilSlice, total |-> 0, err |-> r.err,
              calls |-> <<Call("repository", "GetAll", r.err)>>]
        ELSE IF c.err # NilError
        THEN [messages |-> NilSlice, total |-> 0, err |-> c.err,
              calls |-> <<Call("repository", "GetAll", r.err),
                          Call("repository", "Count", c.err)>>]
        ELSE [messages |-> r.messages, total |-> c.count, err |-> NilError,
              calls |-> <<Call("repository", "GetAll", r.err),
                          Call("repository", "Count", c.err)>>]

\* MockGuestBookService.GetMessages, the test double of the handler tests:
\* messages holds the entities in insertion order
MockGetMessages(messages, page0, pageSize0) ==
    LET page     == IF page0 < 1 THEN 1 ELSE page0
        pageSize == IF pageSize0 < 1 \/ pageSize0 > PageSizeMax
                    THEN DefaultPageSize ELSE pageSize0
        total    == Len(messages)
        offset   == WrapInt((page - 1) * pageSize)
        \* the indices i < total-offset from the newest down, pageSize at most
        first    == Min(total, total - offset)
        count    == Min(pageSize, first)
        result   == [k \in 1..count |-> messages[first - k + 1]]
    IN  IF offset >= total
        THEN [messages |-> EmptySlice, total |-> total, err |-> NilError]
        ELSE [messages |-> AppendAll(EmptySlice, result), total |-> total,
              err |-> NilError]

\* GuestBookService.GetMessageByID
GetMessageByID(table, idStr, out) ==
    LET a == Atoi(idStr)
    IN  IF a.err
        THEN [msg |-> ZeroMessage, err |-> <<"invalid message ID">>, calls |-> <<>>]
        ELSE LET r == GetByID(table, a.val, out)
             IN  [msg |-> r.msg, err |-> r.err,
                  calls |-> <<Call("repository", "GetByID", r.err)>>]

(***************************************************************************)
(* Presentation layer (handlers).                                          *)
(***************************************************************************)
\* http.Header of a response: header name to value; Get of an absent name
\* is the empty string
EmptyHeader == <<>>

Get(header, name) == IF name \in DOMAIN header THEN header[name] ELSE ""

\* Header().Set of every entry of added on header
SetAll(header, added) == added @@ header

\* the payload nil, and the body of a response nothing was written to
NilPayload == [nil |-> TRUE]

NoBodyWritten == [none |-> TRUE]

\* json.NewEncoder(w).Encode of a slice: a nil slice is null, any other
\* slice is an array
EncodeSlice(slice) ==
    IF slice.isNil THEN [json |-> "null"]
    ELSE [json |-> "array", elems |-> slice.elems]

\* RespondJSON that leaves the Content-Type header unset
RespondJSON_NoContentType(status, payload) ==
    [status |-> status,
     body |-> IF payload = NilPayload THEN NoBodyWritten ELSE payload,
     header |-> EmptyHeader]

\* RespondJSON: Content-Type is set, the status is written, and the payload
\* is encoded unless it is nil
RespondJSON(status, payload) ==
    [status |-> status,
     body |-> IF payload = NilPayload THEN NoBodyWritten ELSE payload,
     header |-> SetAll(EmptyHeader, "Content-Type" :> "application/json")]

\* the {"error": text} envelope; text is err.Error() or a fixed message
ErrorEnvelope(text) == [error |-> text]

\* json.NewDecoder(r.Body).Decode(&createMsg)
Decode(body) ==
    LET field(v) == IF v.t = "string" THEN v.s ELSE EmptyString
    IN  IF body.kind # "object"
        THEN [msg |-> models_CreateGuestBookMessage(EmptyString, EmptyString, EmptyString),
              err |-> TRUE]
        ELSE [msg |-> models_CreateGuestBookMessage(field(body.name),
                                                    field(body.email),
                                                    field(body.message)),
              err |-> \E v \in {body.name, body.email, body.message} : v.t = "number"]

\* CreateGuestBookMessage with the decode error dropped
CreateGuestBookMessage_DecodeUnchecked(table, seq, clock, body, out) ==
    LET d == Decode(body)
        r == CreateMessage(table, seq, clock, d.msg, out)
        trace == <<Call("service", "CreateMessage", r.err)>> \o r.calls
    IN  IF r.err # NilError
        THEN [resp |-> RespondJSON(StatusBadRequest, ErrorEnvelope(r.err)),
              table |-> r.table, seq |-> r.seq, calls |-> trace]
        ELSE [resp |-> RespondJSON(StatusCreated, r.msg),
              table |-> r.table, seq |-> r.seq, calls |-> trace]

\* GuestBookHandler.CreateGuestBookMessage (POST /api/v1/guestbook)
CreateGuestBookMessage(table, seq, clock, body, out) ==
    LET d == Decode(body)
    IN  IF d.err
        THEN [resp |-> RespondJSON(StatusBadRequest,
                                   ErrorEnvelope(<<"Invalid request body">>)),
              table |-> table, seq |-> seq, calls |-> <<>>]
        ELSE LET r == CreateMessage(table, seq, clock, d.msg, out)
                 trace == <<Call("service", "CreateMessage", r.err)>> \o r.calls
             IN  IF r.err # NilError
                 THEN [resp |-> RespondJSON(StatusBadRequest, ErrorEnvelope(r.err)),
                       table |-> r.table, seq |-> r.seq, calls |-> trace]
                 ELSE [resp |-> RespondJSON(StatusCreated, r.msg),
                       table |-> r.table, seq |-> r.seq, calls |-> trace]

\* parsePage with the lower clamp at 0 instead of 1
parsePage_ClampBelowZero(pageParam) ==
    LET page == Atoi(pageParam).val
    IN  IF page < 0 THEN 1 ELSE page

\* page, _ := strconv.Atoi(r.URL.Query().Get("page")); if page < 1 { page = 1 }
parsePage(pageParam) ==
    LET page == Atoi(pageParam).val
    IN  IF page < 1 THEN 1 ELSE page

\* pageSize, _ := strconv.Atoi(...Get("page_size")); outside [1,100] -> 10
parsePageSize(pageSizeParam) ==
    LET pageSize == Atoi(pageSizeParam).val
    IN  IF pageSize < 1 \/ pageSize > PageSizeMax THEN DefaultPageSize ELSE pageSize

\* totalPages rounding down
totalPages_Floor(total, pageSize) == WrapInt(total) \div pageSize

\* totalPages := (total + pageSize - 1) / pageSize
totalPages(total, pageSize) == WrapInt(total + pageSize - 1) \div pageSize

\* GuestBookHandler.GetGuestBookMessages (GET /api/v1/guestbook)
GetGuestBookMessages(table, order, pageParam, pageSizeParam, out1, out2) ==
    LET page     == parsePage(pageParam)
        pageSize == parsePageSize(pageSizeParam)
        r        == GetMessages(table, order, page, pageSize, out1, out2)
        trace    == <<Call("service", "GetMessages", r.err)>> \o r.calls
    IN  IF r.err # NilError
        THEN [resp |-> RespondJSON(StatusInternalServerError,
                                   ErrorEnvelope(<<"Failed to retrieve messages">>)),
              calls |-> trace]
        ELSE [resp |-> RespondJSON(StatusOK,
                  [messages |-> r.messages,
                   pagination |-> [page |-> page, page_size |-> pageSize,
                                   total |-> r.total,
                                   total_pages |-> totalPages(r.total, pageSize)]]),
              calls |-> trace]

\* GetGuestBookMessage telling the parse error of the id from a missing row
GetGuestBookMessage_InvalidIdIsBadRequest(table, id, out) ==
    LET r     == GetMessageByID(table, id, out)
        trace == <<Call("service", "GetMessageByID", r.err)>> \o r.calls
    IN  IF r.err = <<"invalid message ID">>
        THEN [resp |-> RespondJSON(StatusBadRequest,
                                   ErrorEnvelope(<<"Invalid message ID">>)),
              calls |-> trace]
        ELSE IF r.err # NilError
        THEN [resp |-> RespondJSON(StatusNotFound,
                                   ErrorEnvelope(<<"Message not found">>)),
              calls |-> trace]
        ELSE [resp |-> RespondJSON(StatusOK, r.msg), calls |-> trace]

\* GuestBookHandler.GetGuestBookMessage (GET /api/v1/guestbook/{id})
GetGuestBookMessage(table, id, out) ==
    LET r     == GetMessageByID(table, id, out)
        trace == <<Call("service", "GetMessageByID", r.err)>> \o r.calls
    IN  IF r.err # NilError
        THEN [resp |-> RespondJSON(StatusNotFound,
                                   ErrorEnvelope(<<"Message not found">>)),
              calls |-> trace]
        ELSE [resp |-> RespondJSON(StatusOK, r.msg), calls |-> trace]

\* HealthHandlerWithDB with the result of the ping dropped
HealthHandlerWithDB_PingIgnored(out) ==
    [resp |-> RespondJSON(StatusOK, [status |-> "healthy", database |-> "connected"]),
     calls |-> <<Call("database", "Health", Health(out))>>]

\* HealthHandlerWithDB (GET /api/v1/health)
HealthHandlerWithDB(out) ==
    LET err == Health(out)
    IN  IF err # NilError
        THEN [resp |-> RespondJSON(StatusServiceUnavailable,
                          [status |-> "unhealthy",
                           error |-> <<"Database connection failed">>]),
              calls |-> <<Call("database", "Health", err)>>]
        ELSE [resp |-> RespondJSON(StatusOK,
                          [status |-> "healthy", database |-> "connected"]),
              calls |-> <<Call("database", "Health", err)>>]

\* HealthHandler (GET /health)
HealthHandler == RespondJSON(StatusOK, [status |-> "healthy"])

\* APIInfoHandler (GET /)
APIInfoHandler == RespondJSON(StatusOK, [name |-> "Guest Book API", version |-> "v1"])

\* NotFoundHandler
NotFoundHandler(method, path) ==
    RespondJSON(StatusNotFound,
                [error |-> <<"Not Found">>,
                 message |-> "The requested resource was not found",
                 path |-> path, method |-> method])

\* MethodNotAllowedHandler
MethodNotAllowedHandler(method, path) ==
    RespondJSON(StatusMethodNotAllowed,
                [error |-> <<"Method Not Allowed">>,
                 message |-> "The request method is not supported for this resource",
                 path |-> path, method |-> method])

(***************************************************************************)
(* Routing (Server.RegisterRoutes and the router's matching).  A path is   *)
(* its fixed part and, for /api/v1/guestbook/<id>, the text of the last    *)
(* segment.                                                                *)
(***************************************************************************)
Path(base, id) == [base |-> base, id |-> id]

GuestBookIdPath(id) == Path("/api/v1/guestbook/", id)

\* the routes in the order the router tries them: the /api/v1 subrouter
\* first (it is created first), then "/" and "/health"
Routes ==
    << [method |-> "GET", base |-> "/api/v1/health", idVar |-> FALSE,
        handler |-> "HealthHandlerWithDB"],
       [method |-> "GET", base |-> "/api/v1/guestbook", idVar |-> FALSE,
        handler |-> "GetGuestBookMessages"],
       [method |-> "POST", base |-> "/api/v1/guestbook", idVar |-> FALSE,
        handler |-> "CreateGuestBookMessage"],
       [method |-> "GET", base |-> "/api/v1/guestbook/", idVar |-> TRUE,
        handler |-> "GetGuestBookMessage"],
       [method |-> "GET", base |-> "/", idVar |-> FALSE,
        handler |-> "APIInfoHandler"],
       [method |-> "GET", base |-> "/health", idVar |-> FALSE,
        handler |-> "HealthHandler"] >>

\* the path template of a route matches: {id:[0-9]+} takes one or more digits
PathMatches(route, path) ==
    /\ route.base = path.base
    /\ IF route.idVar THEN path.id # <<>> /\ AllDigits(path.id) ELSE path.id = <<>>

\* Dispatch answering a method that no route of the path takes like an
\* unknown path
Dispatch_MethodMismatchIsNotFound(method, path) ==
    LET full == { i \in 1..Len(Routes) :
                    PathMatches(Routes[i], path) /\ Routes[i].method = method }
    IN  IF full # {}
        THEN Routes[CHOOSE i \in full : \A j \in full : i <= j].handler
        ELSE "NotFoundHandler"

\* Router.Match: the first route whose path and method match; a path some
\* route takes with another method is ErrMethodMismatch, anything else is
\* ErrNotFound
Dispatch(method, path) ==
    LET hits == { i \in 1..Len(Routes) : PathMatches(Routes[i], path) }
        full == { i \in hits : Routes[i].method = method }
    IN  IF full # {}
        THEN Routes[CHOOSE i \in full : \A j \in full : i <= j].handler
        ELSE IF hits # {} THEN "MethodNotAllowedHandler"
        ELSE "NotFoundHandler"

\* the headers corsMiddleware sets on every response it passes
CorsHeaders ==
    ("Access-Control-Allow-Origin" :> "*")
    @@ ("Access-Control-Allow-Methods" :> "GET, POST, PUT, DELETE, OPTIONS")
    @@ ("Access-Control-Allow-Headers" :> "Content-Type, Authorization")

\* corsMiddleware whose preflight branch does not return
corsMiddleware_PreflightFallsThrough(method, next) ==
    IF method = "OPTIONS"
    THEN [resp |-> [status |-> StatusOK, body |-> next.resp.body,
                    header |-> SetAll(CorsHeaders, next.resp.header)],
          calls |-> next.calls]
    ELSE [resp |-> [next.resp EXCEPT !.header = SetAll(CorsHeaders, @)],
          calls |-> next.calls]

\* corsMiddleware: the three headers are set, an OPTIONS request is answered
\* 200 at once, any other request goes to the next handler; next is what
\* the next handler answers and calls when it is served
corsMiddleware(method, next) ==
    IF method = "OPTIONS"
    THEN [resp |-> [status |-> StatusOK, body |-> NoBodyWritten,
                    header |-> CorsHeaders],
          calls |-> <<>>]
    ELSE [resp |-> [next.resp EXCEPT !.header = SetAll(CorsHeaders, @)],
          calls |-> next.calls]

\* loggingMiddleware: logs the request and serves the next handler
loggingMiddleware(next) == next

\* Router.ServeHTTP: the middleware registered with Use wraps the handler of
\* a matched route, the first registered outermost; the NotFoundHandler and
\* the MethodNotAllowedHandler are served without it
ServeHTTP(method, path, next) ==
    LET handler == Dispatch(method, path)
    IN  IF handler = "NotFoundHandler"
        THEN [resp |-> NotFoundHandler(method, path), calls |-> <<>>]
        ELSE IF handler = "MethodNotAllowedHandler"
        THEN [resp |-> MethodNotAllowedHandler(method, path), calls |-> <<>>]
        ELSE loggingMiddleware(corsMiddleware(method, next))

(***************************************************************************)
(* Inputs.                                                                 *)
(***************************************************************************)
\* driver errors of a store statement (connectivity, timeout)
DriverErrs == { <<"connection refused">>, <<"context deadline exceeded">> }

Outcomes == {NilError} \cup DriverErrs

Names ==
    { Repeat("A", NameMin - 1), Repeat("A", NameMin), Repeat("A", NameMax),
      Repeat("A", NameMax + 1),
      Repeat("e_acute", NameMin - 1), Repeat("e_acute", (NameMax \div 2) + 10) }

Emails ==
    { EmptyString, Repeat("b", 1), Repeat("b", EmailMax), Repeat("b", EmailMax + 1) }

Messages ==
    { Repeat("c", MessageMin - 1), Repeat("c", MessageMin), Repeat("c", MessageMax),
      Repeat("c", MessageMax + 1) }

\* the draft with every field at its lower bound, and at its upper bound
MinDraft ==
    models_CreateGuestBookMessage(Repeat("A", NameMin), Repeat("b", 1),
                                  Repeat("c", MessageMin))
MaxDraft ==
    models_CreateGuestBookMessage(Repeat("A", NameMax), Repeat("b", EmailMax),
                                  Repeat("c", MessageMax))

\* MinDraft with one field replaced by a value at or beyond a bound, MaxDraft,
\* and the drafts that are too short in several fields at once
Drafts ==
    { MinDraft, MaxDraft }
    \cup { [MinDraft EXCEPT !.Name = n] :
             n \in Names \ {Repeat("A", NameMax)} }
    \cup { [MinDraft EXCEPT !.Email = e] :
             e \in Emails \ {Repeat("b", EmailMax)} }
    \cup { [MinDraft EXCEPT !.Message = m] :
             m \in Messages \ {Repeat("c", MessageMax)} }
    \cup [Name : {Repeat("A", NameMin - 1), MinDraft.Name},
          Email : {EmptyString, MinDraft.Email},
          Message : {Repeat("c", MessageMin - 1), MinDraft.Message}]

ObjectBody(n, e, m) == [kind |-> "object", name |-> n, email |-> e, message |-> m]

\* text that is no JSON at all, e.g. {"invalid": json}
GarbageBody == [kind |-> "garbage", name |-> JAbsent, email |-> JAbsent,
                message |-> JAbsent]

NoBody == [kind |-> "none", name |-> JAbsent, email |-> JAbsent, message |-> JAbsent]

Bodies ==
    { ObjectBody(JString(d.Name), JString(d.Email), JString(d.Message)) : d \in Drafts }
    \cup { GarbageBody,
           ObjectBody(JNumber, JString(MinDraft.Email), JString(MinDraft.Message)),
           ObjectBody(JString(MinDraft.Name), JString(MinDraft.Email), JNumber),
           ObjectBody(JAbsent, JString(MinDraft.Email), JString(MinDraft.Message)),
           ObjectBody(JString(MinDraft.Name), JAbsent, JAbsent) }

\* a numeral beyond the int range
BeyondInt == Itoa(MaxInt) \o <<"0">>

\* raw values of the query parameters page and page_size ("" when missing)
PageParams ==
    { <<>>, <<"a", "b", "c">>, Itoa(0), Itoa(-1), Itoa(1), Itoa(2),
      Itoa(Pow2(IntBits - 2) + 1), Itoa(MaxInt), BeyondInt }

PageSizeParams ==
    { <<>>, <<"1", "x">>, Itoa(1), Itoa(2), Itoa(4), Itoa(PageSizeMax),
      Itoa(PageSizeMax + 1) }

\* raw values of the path variable id
IdParams ==
    { Itoa(i) : i \in 0..(MaxRows + 1) }
    \cup { <<"0", "1">>, <<"a", "b", "c">>, Itoa(-1), BeyondInt }

Methods == {"GET", "POST", "DELETE", "OPTIONS"}

\* request paths: the registered ones, the id paths (empty segment included)
\* and paths no route takes
Paths ==
    { Path(b, <<>>) : b \in {"/", "/health", "/api/v1/health", "/api/v1/guestbook",
                             "/nonexistent", "/api/v1/nonexistent"} }
    \cup { GuestBookIdPath(id) : id \in IdParams \cup {<<>>} }

NoRequest ==
    [op |-> "none", method |-> "", path |-> Path("", <<>>),
     body |-> NoBody, page |-> <<>>, pageSize |-> <<>>,
     id |-> <<>>, out1 |-> NilError, out2 |-> NilError, order |-> <<>>,
     next |-> NoBodyWritten]

NoResponse == [status |-> 0, body |-> NoBodyWritten, header |-> EmptyHeader]

(***************************************************************************)
(* The process while it serves: Start has returned nil, the listener is    *)
(* up, the pool is open.                                                   *)
(***************************************************************************)
ServingServer ==
    [pc |-> "serving", startErr |-> NilError, schemaInits |-> 1,
     schemaReady |-> TRUE, routes |-> TRUE, listener |-> "listening", held |-> 0]

OpenPool == [state |-> "open", inUse |-> 0]

(***************************************************************************)
(* State machine of the request path.                                      *)
(***************************************************************************)
Init ==
    /\ store = <<>>
    /\ nextID = 1
    /\ now = 0
    /\ req = NoRequest
    /\ resp = NoResponse
    /\ calls = <<>>
    /\ returned = {}
    /\ server = ServingServer
    /\ pool = OpenPool
    /\ inflight = EmptyBag
    /\ schema = TRUE

\* the store clock NOW() advances
Tick ==
    /\ req.op = "none"
    /\ UNCHANGED <<procVars, schema>>
    /\ now < MaxClock
    /\ now' = now + 1
    /\ UNCHANGED <<store, nextID, req, resp, calls, returned>>

\* POST /api/v1/guestbook
PostGuestBook ==
    /\ req.op = "none"
    /\ UNCHANGED <<procVars, schema>>
    /\ Len(store) < MaxRows
    /\ Dispatch("POST", Path("/api/v1/guestbook", <<>>)) = "CreateGuestBookMessage"
    /\ \E body \in Bodies, out \in Outcomes :
         LET r == CreateGuestBookMessage(store, nextID, now, body, out)
         IN  \* the outcome of a statement that is never issued is no input
             /\ out # NilError => \E c \in 1..Len(r.calls) : r.calls[c].layer = "repository"
             /\ req' = [NoRequest EXCEPT !.op = "create", !.method = "POST",
                                         !.path = Path("/api/v1/guestbook", <<>>),
                                         !.body = body, !.out1 = out]
             /\ resp' = ServeHTTP("POST", Path("/api/v1/guestbook", <<>>), r).resp
             /\ calls' = r.calls
             /\ store' = r.table
             /\ nextID' = r.seq
             /\ returned' = IF r.resp.status = StatusCreated
                            THEN returned \cup {r.resp.body} ELSE returned
             /\ UNCHANGED now

\* GET /api/v1/guestbook?page=..&page_size=..
ListGuestBook ==
    /\ req.op = "none"
    /\ UNCHANGED <<procVars, schema>>
    /\ Dispatch("GET", Path("/api/v1/guestbook", <<>>)) = "GetGuestBookMessages"
    /\ \E page \in PageParams, pageSize \in PageSizeParams, order \in Orders(store),
          out1 \in Outcomes, out2 \in Outcomes :
         LET r == GetGuestBookMessages(store, order, page, pageSize, out1, out2)
         IN  /\ out1 # NilError => out2 = NilError
             /\ out2 # NilError => \E c \in 1..Len(r.calls) : r.calls[c].fn = "Count"
             /\ req' = [NoRequest EXCEPT !.op = "list", !.method = "GET",
                                         !.path = Path("/api/v1/guestbook", <<>>),
                                         !.page = page,
                                         !.pageSize = pageSize, !.order = order,
                                         !.out1 = out1, !.out2 = out2]
             /\ resp' = ServeHTTP("GET", Path("/api/v1/guestbook", <<>>), r).resp
             /\ calls' = r.calls
             /\ UNCHANGED <<store, nextID, now, returned>>

\* GET /api/v1/guestbook/{id}
GetGuestBook ==
    /\ req.op = "none"
    /\ UNCHANGED <<procVars, schema>>
    /\ \E id \in IdParams, out \in Outcomes :
         LET r == GetGuestBookMessage(store, id, out)
         IN  /\ Dispatch("GET", GuestBookIdPath(id)) = "GetGuestBookMessage"
             /\ out # NilError => \E c \in 1..Len(r.calls) : r.calls[c].layer = "repository"
             /\ req' = [NoRequest EXCEPT !.op = "get", !.method = "GET",
                                         !.path = GuestBookIdPath(id),
                                         !.id = id, !.out1 = out]
             /\ resp' = ServeHTTP("GET", GuestBookIdPath(id), r).resp
             /\ calls' = r.calls
             /\ UNCHANGED <<store, nextID, now, returned>>

\* GET /api/v1/health
GetHealthWithDB ==
    /\ req.op = "none"
    /\ UNCHANGED <<procVars, schema>>
    /\ Dispatch("GET", Path("/api/v1/health", <<>>)) = "HealthHandlerWithDB"
    /\ \E out \in Outcomes :
         LET r == HealthHandlerWithDB(out)
         IN  /\ req' = [NoRequest EXCEPT !.op = "health", !.method = "GET",
                                         !.path = Path("/api/v1/health", <<>>),
                                         !.out1 = out]
             /\ resp' = ServeHTTP("GET", Path("/api/v1/health", <<>>), r).resp
             /\ calls' = r.calls
             /\ UNCHANGED <<store, nextID, now, returned>>

\* GET /health
GetHealth ==
    /\ req.op = "none"
    /\ UNCHANGED <<procVars, schema>>
    /\ Dispatch("GET", Path("/health", <<>>)) = "HealthHandler"
    /\ req' = [NoRequest EXCEPT !.op = "liveness", !.method = "GET",
                                !.path = Path("/health", <<>>)]
    /\ resp' = ServeHTTP("GET", Path("/health", <<>>),
                          [resp |-> HealthHandler, calls |-> <<>>]).resp
    /\ calls' = <<>>
    /\ UNCHANGED <<store, nextID, now, returned>>

\* GET /
GetAPIInfo ==
    /\ req.op = "none"
    /\ UNCHANGED <<procVars, schema>>
    /\ Dispatch("GET", Path("/", <<>>)) = "APIInfoHandler"
    /\ req' = [NoRequest EXCEPT !.op = "info", !.method = "GET",
                                !.path = Path("/", <<>>)]
    /\ resp' = ServeHTTP("GET", Path("/", <<>>),
                          [resp |-> APIInfoHandler, calls |-> <<>>]).resp
    /\ calls' = <<>>
    /\ UNCHANGED <<store, nextID, now, returned>>

\* a request whose path no route takes
RouteNotFound ==
    /\ req.op = "none"
    /\ UNCHANGED <<procVars, schema>>
    /\ \E method \in Methods, path \in Paths :
         /\ Dispatch(method, path) = "NotFoundHandler"
         /\ req' = [NoRequest EXCEPT !.op = "notfound", !.method = method,
                                     !.path = path, !.id = path.id]
         /\ resp' = ServeHTTP(method, path, [resp |-> NoResponse, calls |-> <<>>]).resp
         /\ calls' = <<>>
         /\ UNCHANGED <<store, nextID, now, returned>>

\* a request to a routed path with a method no route of that path takes
RouteMethodNotAllowed ==
    /\ req.op = "none"
    /\ UNCHANGED <<procVars, schema>>
    /\ \E method \in Methods, path \in Paths :
         /\ Dispatch(method, path) = "MethodNotAllowedHandler"
         /\ req' = [NoRequest EXCEPT !.op = "notallowed", !.method = method,
                                     !.path = path, !.id = path.id]
         /\ resp' = ServeHTTP(method, path, [resp |-> NoResponse, calls |-> <<>>]).resp
         /\ calls' = <<>>
         /\ UNCHANGED <<store, nextID, now, returned>>

\* the response has been written and the request is over
RequestCompleted ==
    /\ req.op # "none"
    /\ UNCHANGED <<procVars, schema>>
    /\ req' = NoRequest
    /\ resp' = NoResponse
    /\ calls' = <<>>
    /\ UNCHANGED <<store, nextID, now, returned>>

Next ==
    \/ Tick
    \/ PostGuestBook
    \/ ListGuestBook
    \/ GetGuestBook
    \/ GetHealthWithDB
    \/ GetHealth
    \/ GetAPIInfo
    \/ RouteNotFound
    \/ RouteMethodNotAllowed
    \/ RequestCompleted

Spec == Init /\ [][Next]_vars

TypeOK ==
    /\ Len(store) <= MaxRows
    /\ nextID \in 1..(MaxRows + 1)
    /\ now \in 0..MaxClock

(***************************************************************************)
(* The CORS middleware on a router with a route that takes OPTIONS (the    *)
(* /test route of TestServer_CORSMiddleware), in front of a handler that   *)
(* answers with any status and payload.                                    *)
(***************************************************************************)
Statuses ==
    { StatusOK, StatusCreated, StatusNoContent, StatusBadRequest, StatusNotFound,
      StatusMethodNotAllowed, StatusInternalServerError, StatusServiceUnavailable }

Payloads ==
    { NilPayload, [message |-> "test"], ErrorEnvelope(<<"test error">>),
      [status |-> "healthy"], [messages |-> EmptySlice] }

\* what the handler behind the middleware writes: a RespondJSON, or a bare
\* WriteHeader(200) as the test handlers do
Written ==
    { RespondJSON(status, payload) : status \in Statuses, payload \in Payloads }
    \cup { [status |-> StatusOK, body |-> NoBodyWritten, header |-> EmptyHeader] }

\* the methods the /test route takes
CorsMethods == {"GET", "POST", "OPTIONS"}

\* a request to /test passes the middleware
ServeThroughCORS ==
    /\ req.op = "none"
    /\ UNCHANGED <<procVars, schema>>
    /\ \E method \in CorsMethods, written \in Written :
         LET next == [resp |-> written,
                      calls |-> <<Call("handler", "testHandler", NilError)>>]
             r == corsMiddleware(method, next)
         IN  /\ req' = [NoRequest EXCEPT !.op = "middleware", !.method = method,
                                         !.path = Path("/test", <<>>),
                                         !.next = written]
             /\ resp' = r.resp
             /\ calls' = r.calls
             /\ UNCHANGED <<store, nextID, now, returned>>

MiddlewareNext ==
    \/ ServeThroughCORS
    \/ RequestCompleted

MiddlewareSpec == Init /\ [][MiddlewareNext]_vars

(***************************************************************************)
(* The process: main, Server.Start, Server.Shutdown, the pool, and the     *)
(* handlers split at their store statements.  A request in flight is a     *)
(* record; the requests in flight are a bag.                               *)
(***************************************************************************)
\* the context a handler hands to the store: r.Context(), except that
\* HealthHandlerWithDB makes its own context.Background()
StatementCtx(op) == IF op = "health" THEN "background" ELSE "request"

\* the first store statement of the handler of op
FirstStatement(op) ==
    CASE op = "create" -> "Create"
      [] op = "list" -> "GetAll"
      [] op = "get" -> "GetByID"
      [] op = "health" -> "Ping"

\* the ways a statement may end: it runs ("none"), the query fails, and for
\* the row loop of GetAll a row fails to scan or the iteration fails;
\* GetByID may find no row
StatementOutcomes(stmt) ==
    CASE stmt = "GetAll" -> {"none", "query", "scan", "iter"}
      [] stmt = "GetByID" -> {"none", "no rows", "query"}
      [] OTHER -> {"none", "query"}

\* the status the handler of op writes when its statement ended with
\* outcome, by the handlers of the request path
StatusFor(op, outcome) ==
    LET err == IF outcome \in {"none", "no rows"} THEN NilError ELSE <<outcome>>
        row == models_GuestBookMessage(1, MinDraft.Name, MinDraft.Email,
                                       MinDraft.Message, 0, 0)
        body == ObjectBody(JString(MinDraft.Name), JString(MinDraft.Email),
                           JString(MinDraft.Message))
    IN  CASE op = "create" ->
               CreateGuestBookMessage(<<>>, 1, 0, body, err).resp.status
          [] op = "list" ->
               GetGuestBookMessages(<<>>, <<>>, <<>>, <<>>, err, NilError).resp.status
          [] op = "get" ->
               GetGuestBookMessage(IF outcome = "no rows" THEN <<>> ELSE <<row>>,
                                   Itoa(1), err).resp.status
          [] op = "health" -> HealthHandlerWithDB(err).resp.status

\* a request the listener has just handed to its handler
NewRequest(op) ==
    [op |-> op, pc |-> "handler", stmt |-> FirstStatement(op), canceled |-> FALSE,
     held |-> 0, failed |-> "none", status |-> 0]

\* the handler has written its response
Responded(r, outcome) ==
    [r EXCEPT !.pc = "done", !.failed = outcome, !.status = StatusFor(r.op, outcome)]

\* the statement's context is done
CtxDone(r) == r.canceled /\ StatementCtx(r.op) = "request"

\* the statement of r ends with outcome and that a row that fails to scan
\* returns without closing the rows (no deferred rows.Close())
FinishStatement_ScanErrorLeaks(r, outcome) ==
    IF outcome = "none" /\ r.stmt = "GetAll"
    THEN [r EXCEPT !.pc = "handler", !.stmt = "Count", !.held = @ - 1]
    ELSE IF outcome = "scan"
    THEN Responded(r, outcome)
    ELSE Responded([r EXCEPT !.held = @ - 1], outcome)

\* the statement of r ends with outcome: the connection goes back to the
\* pool (Scan of QueryRow, the deferred rows.Close() of GetAll, Ping), then
\* GetMessages goes on to Count or the handler responds
FinishStatement(r, outcome) ==
    IF outcome = "none" /\ r.stmt = "GetAll"
    THEN [r EXCEPT !.pc = "handler", !.stmt = "Count", !.held = @ - 1]
    ELSE Responded([r EXCEPT !.held = @ - 1], outcome)

\* inflight with r replaced by r2
Replace(r, r2) == (inflight (-) SetToBag({r})) (+) SetToBag({r2})

\* the process has not exited
Alive == server.pc \notin {"exit", "stopped", "forced"}

\* the databases a process may be started on: a new one, and one that an
\* earlier run of the process has initialized and stored an entity in
Databases ==
    { Database(FALSE, <<>>, 1),
      Database(TRUE, <<models_GuestBookMessage(1, MinDraft.Name, MinDraft.Email,
                                              MinDraft.Message, 0, 0)>>, 2) }

ProcessInit ==
    /\ \E db \in Databases :
         /\ schema = db.schema
         /\ store = db.table
         /\ nextID = db.seq
    /\ now = 0
    /\ req = NoRequest
    /\ resp = NoResponse
    /\ calls = <<>>
    /\ returned = {}
    /\ server = [pc |-> "main", startErr |-> NilError, schemaInits |-> 0,
                 schemaReady |-> FALSE, routes |-> FALSE, listener |-> "none",
                 held |-> 0]
    /\ pool = [state |-> "none", inUse |-> 0]
    /\ inflight = EmptyBag

\* Start -> initializeDatabase -> database.NewConnection
NewConnection ==
    /\ server.pc = "main"
    /\ \E out \in Outcomes :
         IF out = NilError
         THEN /\ pool' = OpenPool
              /\ server' = [server EXCEPT !.pc = "initialize"]
         ELSE \* pool.Close() after the failed ping; Start returns the error
              \* and main exits
              /\ pool' = [state |-> "closed", inUse |-> 0]
              /\ server' = [server EXCEPT !.pc = "exit",
                              !.startErr = Errorf("failed to ping database: ", out)]
    /\ UNCHANGED <<inflight, pathVars, schema>>

\* initializeDatabase -> InitializeDatabase -> CreateTable: Pool.Exec begins
CreateTableExec ==
    /\ server.pc = "initialize"
    /\ pool.state = "open"
    /\ pool.inUse < MaxConns
    /\ pool' = [pool EXCEPT !.inUse = @ + 1]
    /\ server' = [server EXCEPT !.pc = "create_table", !.held = @ + 1,
                                !.schemaInits = @ + 1]
    /\ UNCHANGED <<inflight, pathVars, schema>>

\* CreateTableReturns with Start going on after a failed CreateTable
CreateTableReturns_ErrorDropped ==
    /\ server.pc = "create_table"
    /\ \E out \in Outcomes :
         LET r == CreateTable(Database(schema, store, nextID), out)
         IN  /\ schema' = r.db.schema
             /\ store' = r.db.table
             /\ nextID' = r.db.seq
             /\ server' = [server EXCEPT !.pc = "register", !.held = @ - 1,
                                         !.schemaReady = (r.err = NilError)]
    /\ pool' = [pool EXCEPT !.inUse = @ - 1]
    /\ UNCHANGED <<inflight, now, req, resp, calls, returned>>

\* Pool.Exec returns; on an error initializeDatabase and Start return it
\* and main exits
CreateTableReturns ==
    /\ server.pc = "create_table"
    /\ \E out \in Outcomes :
         LET r == CreateTable(Database(schema, store, nextID), out)
         IN  /\ schema' = r.db.schema
             /\ store' = r.db.table
             /\ nextID' = r.db.seq
             /\ IF r.err = NilError
                THEN server' = [server EXCEPT !.pc = "register", !.held = @ - 1,
                                              !.schemaReady = TRUE]
                ELSE server' = [server EXCEPT !.pc = "exit", !.held = @ - 1,
                                              !.startErr = r.err]
    /\ pool' = [pool EXCEPT !.inUse = @ - 1]
    /\ UNCHANGED <<inflight, now, req, resp, calls, returned>>

\* Start: s.RegisterRoutes()
RegisterRoutes ==
    /\ server.pc = "register"
    /\ server' = [server EXCEPT !.pc = "listen", !.routes = TRUE]
    /\ UNCHANGED <<pool, inflight, pathVars, schema>>

\* Start: go func() { ListenAndServe() }(); return nil.  main waits for a
\* signal.
StartReturns ==
    /\ server.pc = "listen"
    /\ server' = [server EXCEPT !.pc = "serving"]
    /\ UNCHANGED <<pool, inflight, pathVars, schema>>

\* the goroutine of Start: ListenAndServe binds the port, or fails and the
\* error is logged
ListenAndServe ==
    /\ server.pc \in {"serving", "shutdown", "closing", "server_shutdown"}
    /\ server.listener = "none"
    /\ \E bound \in BOOLEAN :
         server' = [server EXCEPT !.listener = IF bound THEN "listening" ELSE "failed"]
    /\ UNCHANGED <<pool, inflight, pathVars, schema>>

\* main: <-quit (SIGINT, SIGTERM)
Signal ==
    /\ server.pc = "serving"
    /\ server' = [server EXCEPT !.pc = "shutdown"]
    /\ UNCHANGED <<pool, inflight, pathVars, schema>>

\* Shutdown: s.db.Close() -> Pool.Close(): the pool refuses to hand out
\* connections from now on
CloseDB ==
    /\ server.pc = "shutdown"
    /\ pool' = [pool EXCEPT !.state = "closed"]
    /\ server' = [server EXCEPT !.pc = "closing"]
    /\ UNCHANGED <<inflight, pathVars, schema>>

\* Pool.Close() returns when every connection has come back
CloseDBReturns ==
    /\ server.pc = "closing"
    /\ pool.inUse = 0
    /\ server' = [server EXCEPT !.pc = "server_shutdown"]
    /\ UNCHANGED <<pool, inflight, pathVars, schema>>

\* Shutdown: s.server.Shutdown(ctx) closes the listener
ServerShutdown ==
    /\ server.pc = "server_shutdown"
    /\ server' = [server EXCEPT !.pc = "draining", !.listener = "closed"]
    /\ UNCHANGED <<pool, inflight, pathVars, schema>>

\* server.Shutdown returns nil: no request is being served
Drained ==
    /\ server.pc = "draining"
    /\ inflight = EmptyBag
    /\ server' = [server EXCEPT !.pc = "stopped"]
    /\ UNCHANGED <<pool, inflight, pathVars, schema>>

\* the 10 s of main's context are over: server.Shutdown returns the
\* context's error and main exits
GraceExpired ==
    /\ server.pc = "draining"
    /\ inflight # EmptyBag
    /\ server' = [server EXCEPT !.pc = "forced"]
    /\ UNCHANGED <<pool, inflight, pathVars, schema>>

\* the listener hands a request to its handler; a create whose body or
\* draft is refused responds without a statement
AcceptRequest ==
    /\ Alive
    /\ server.listener = "listening"
    /\ BagCardinality(inflight) < MaxInflight
    /\ \E op \in {"create", "list", "get", "health"}, refused \in BOOLEAN :
         /\ refused => op = "create"
         /\ inflight' = inflight (+)
              SetToBag({ IF refused
                         THEN [NewRequest(op) EXCEPT !.pc = "done",
                                 !.stmt = "none", !.failed = "validation",
                                 !.status = StatusBadRequest]
                         ELSE NewRequest(op) })
    /\ UNCHANGED <<server, pool, pathVars, schema>>

\* the client goes away or the request times out: r.Context() is canceled
CancelRequest ==
    /\ Alive
    /\ \E r \in BagToSet(inflight) :
         /\ r.pc \in {"handler", "stmt"}
         /\ ~r.canceled
         /\ inflight' = Replace(r, [r EXCEPT !.canceled = TRUE])
    /\ UNCHANGED <<server, pool, pathVars, schema>>

\* the handler reaches its statement: Pool.QueryRow / Query / Ping acquire
\* a connection.  A done context and a closed pool make the statement fail
\* at once; a pool without a free connection makes it wait.
BeginStatement ==
    /\ Alive
    /\ \E r \in BagToSet(inflight) :
         /\ r.pc = "handler"
         /\ IF CtxDone(r)
            THEN /\ inflight' = Replace(r, Responded(r, "canceled"))
                 /\ UNCHANGED pool
            ELSE IF pool.state # "open"
            THEN /\ inflight' = Replace(r, Responded(r, "closed pool"))
                 /\ UNCHANGED pool
            ELSE /\ pool.inUse < MaxConns
                 /\ pool' = [pool EXCEPT !.inUse = @ + 1]
                 /\ inflight' = Replace(r, [r EXCEPT !.pc = "stmt", !.held = @ + 1])
    /\ UNCHANGED <<server, pathVars, schema>>

\* the store answers the statement
EndStatement ==
    /\ Alive
    /\ \E r \in BagToSet(inflight) :
         /\ r.pc = "stmt"
         /\ \E outcome \in StatementOutcomes(r.stmt) :
              LET r2 == FinishStatement(r, outcome)
              IN  /\ inflight' = Replace(r, r2)
                  /\ pool' = [pool EXCEPT !.inUse = @ - (r.held - r2.held)]
    /\ UNCHANGED <<server, pathVars, schema>>

\* the driver sees the done context of a statement in flight and gives up
AbortStatement ==
    /\ Alive
    /\ \E r \in BagToSet(inflight) :
         /\ r.pc = "stmt"
         /\ CtxDone(r)
         /\ LET r2 == Responded([r EXCEPT !.held = @ - 1], "canceled")
            IN  /\ inflight' = Replace(r, r2)
                /\ pool' = [pool EXCEPT !.inUse = @ - 1]
    /\ UNCHANGED <<server, pathVars, schema>>

\* the response is out and the handler has returned
HandlerReturns ==
    /\ Alive
    /\ \E r \in BagToSet(inflight) :
         /\ r.pc = "done"
         /\ inflight' = inflight (-) SetToBag({r})
    /\ UNCHANGED <<server, pool, pathVars, schema>>

ProcessNext ==
    \/ NewConnection
    \/ CreateTableExec
    \/ CreateTableReturns
    \/ RegisterRoutes
    \/ StartReturns
    \/ ListenAndServe
    \/ Signal
    \/ CloseDB
    \/ CloseDBReturns
    \/ ServerShutdown
    \/ Drained
    \/ GraceExpired
    \/ AcceptRequest
    \/ CancelRequest
    \/ BeginStatement
    \/ EndStatement
    \/ AbortStatement
    \/ HandlerReturns

ProcessSpec == ProcessInit /\ [][ProcessNext]_vars

(***************************************************************************)
(* Requests served concurrently on one store.  Every handler runs in its   *)
(* own goroutine and shares nothing with the others but the store; a store *)
(* statement is atomic, so the handlers interleave at their statements:    *)
(* CreateGuestBookMessage issues one (INSERT ... RETURNING),               *)
(* GetGuestBookMessages two (the SELECT of GetAll, then the SELECT COUNT   *)
(* of Count), outside any transaction.  The requests are served within    *)
(* one reading of the store clock.                                         *)
(***************************************************************************)
\* the requests of the concurrent clients
ConcurrentDrafts == {MinDraft, MaxDraft}

ConcurrentPages == {Itoa(1), Itoa(2)}

ConcurrentPageSizes == {Itoa(1)}

\* a statement runs, or the store is not available
ConcurrentOutcomes == {NilError, <<"connection refused">>}

\* a request being served: its inputs, the position of its handler, the
\* driver error of its last statement, the page GetAll has returned, and
\* the response once it is written
Serving(op) ==
    [op |-> op, pc |-> "statement", body |-> NoBody, page |-> <<>>,
     pageSize |-> <<>>, out |-> NilError, messages |-> NilSlice,
     resp |-> NoResponse]

\* GetGuestBookMessages once GetMessages has returned without an error
ListResponse(messages, total, page, pageSize) ==
    RespondJSON(StatusOK,
        [messages |-> messages,
         pagination |-> [page |-> page, page_size |-> pageSize, total |-> total,
                         total_pages |-> totalPages(total, pageSize)]])

\* a POST /api/v1/guestbook is accepted
ServeCreate ==
    /\ BagCardinality(inflight) < MaxInflight
    /\ \E d \in ConcurrentDrafts :
         inflight' = inflight (+)
           SetToBag({ [Serving("create") EXCEPT
                         !.body = ObjectBody(JString(d.Name), JString(d.Email),
                                             JString(d.Message))] })
    /\ UNCHANGED <<server, pool, pathVars, schema>>

\* the handler of a create runs: decode, validate, INSERT ... RETURNING
InsertReturning ==
    /\ Len(store) < MaxRows
    /\ \E r \in BagToSet(inflight), out \in ConcurrentOutcomes :
         /\ r.op = "create"
         /\ r.pc = "statement"
         /\ LET h == CreateGuestBookMessage(store, nextID, now, r.body, out)
                a == ServeHTTP("POST", Path("/api/v1/guestbook", <<>>), h)
            IN  /\ store' = h.table
                /\ nextID' = h.seq
                /\ returned' = IF a.resp.status = StatusCreated
                               THEN returned \cup {a.resp.body} ELSE returned
                /\ inflight' = Replace(r, [r EXCEPT !.pc = "respond", !.out = out,
                                                    !.resp = a.resp])
    /\ UNCHANGED <<server, pool, schema, now, req, resp, calls>>

\* a GET /api/v1/guestbook is accepted
ServeList ==
    /\ BagCardinality(inflight) < MaxInflight
    /\ \E page \in ConcurrentPages, pageSize \in ConcurrentPageSizes :
         inflight' = inflight (+)
           SetToBag({ [Serving("list") EXCEPT !.page = page,
                                              !.pageSize = pageSize] })
    /\ UNCHANGED <<server, pool, pathVars, schema>>

\* GetMessages: s.repo.GetAll(ctx, pageSize, offset)
QueryPage ==
    /\ \E r \in BagToSet(inflight), order \in Orders(store), out \in ConcurrentOutcomes :
         /\ r.op = "list"
         /\ r.pc = "statement"
         /\ LET page     == parsePage(r.page)
                pageSize == parsePageSize(r.pageSize)
                offset   == WrapInt((page - 1) * pageSize)
                q        == GetAll(store, order, pageSize, offset, out)
                failed   == RespondJSON(StatusInternalServerError,
                                ErrorEnvelope(<<"Failed to retrieve messages">>))
            IN  inflight' =
                  IF q.err # NilError
                  THEN Replace(r, [r EXCEPT !.pc = "respond", !.out = out,
                          !.resp = ServeHTTP("GET", Path("/api/v1/guestbook", <<>>),
                                             [resp |-> failed, calls |-> <<>>]).resp])
                  ELSE Replace(r, [r EXCEPT !.pc = "count",
                                            !.messages = q.messages])
    /\ UNCHANGED <<server, pool, pathVars, schema>>

\* GetMessages: s.repo.Count(ctx), and the handler writes the response
QueryCount ==
    /\ \E r \in BagToSet(inflight), out \in ConcurrentOutcomes :
         /\ r.op = "list"
         /\ r.pc = "count"
         /\ LET c      == Count(store, out)
                failed == RespondJSON(StatusInternalServerError,
                              ErrorEnvelope(<<"Failed to retrieve messages">>))
                done   == IF c.err # NilError THEN failed
                          ELSE ListResponse(r.messages, c.count, parsePage(r.page),
                                            parsePageSize(r.pageSize))
            IN  inflight' =
                  Replace(r, [r EXCEPT !.pc = "respond", !.out = out,
                     !.resp = ServeHTTP("GET", Path("/api/v1/guestbook", <<>>),
                                        [resp |-> done, calls |-> <<>>]).resp])
    /\ UNCHANGED <<server, pool, pathVars, schema>>

\* the response has reached the client and the handler is gone
ResponseSent ==
    /\ \E r \in BagToSet(inflight) :
         /\ r.pc = "respond"
         /\ inflight' = inflight (-) SetToBag({r})
    /\ UNCHANGED <<server, pool, pathVars, schema>>

ConcurrentNext ==
    \/ ServeCreate
    \/ InsertReturning
    \/ ServeList
    \/ QueryPage
    \/ QueryCount
    \/ ResponseSent

ConcurrentSpec == Init /\ [][ConcurrentNext]_vars

(***************************************************************************)
(* Vocabulary of the properties.                                           *)
(***************************************************************************)
\* the response the service gives to request rq in the current state
Answer(rq) ==
    LET handled ==
          CASE rq.op = "create" ->
                 CreateGuestBookMessage(store, nextID, now, rq.body, rq.out1)
            [] rq.op = "list" ->
                 GetGuestBookMessages(store, rq.order, rq.page, rq.pageSize,
                                      rq.out1, rq.out2)
            [] rq.op = "get" -> GetGuestBookMessage(store, rq.id, rq.out1)
            [] rq.op = "health" -> HealthHandlerWithDB(rq.out1)
            [] rq.op = "liveness" -> [resp |-> HealthHandler, calls |-> <<>>]
            [] rq.op = "info" -> [resp |-> APIInfoHandler, calls |-> <<>>]
            [] OTHER -> [resp |-> NoResponse, calls |-> <<>>]
    IN  IF rq.op = "none" THEN NoResponse
        ELSE ServeHTTP(rq.method, rq.path, handled).resp

\* a store statement issued for the request failed in the driver
StoreFailed == req.out1 # NilError \/ req.out2 # NilError

\* the body is no JSON, or a member has a type the draft cannot hold
CannotDecode(body) ==
    \/ body.kind # "object"
    \/ body.name.t = "number" \/ body.email.t = "number" \/ body.message.t = "number"

\* the draft a decodable body carries (absent members are empty)
DraftOf(body) ==
    models_CreateGuestBookMessage(body.name.s, body.email.s, body.message.s)

NameInBounds(d) == RuneCount(d.Name) >= NameMin /\ RuneCount(d.Name) <= NameMax
EmailInBounds(d) == RuneCount(d.Email) >= 1 /\ RuneCount(d.Email) <= EmailMax
MessageInBounds(d) ==
    RuneCount(d.Message) >= MessageMin /\ RuneCount(d.Message) <= MessageMax

\* the error of the first violated rule, in the order name, email, message
FirstViolation(d) ==
    IF ~NameInBounds(d) THEN <<"name must be between 2 and 100 characters">>
    ELSE IF ~EmailInBounds(d) THEN <<"email must be between 1 and 255 characters">>
    ELSE <<"message must be between 10 and 1000 characters">>

ValidationMessages ==
    { <<"name must be between 2 and 100 characters">>,
      <<"email must be between 1 and 255 characters">>,
      <<"message must be between 10 and 1000 characters">> }

(***************************************************************************)
(* C1.  A draft whose name has 2..100 characters, whose email has 1..255   *)
(* characters and whose message has 10..1000 characters is created when    *)
(* the store is available: 201 with an entity that echoes the three fields *)
(* and carries a fresh positive identifier.                                *)
(* Violated: the code measures bytes, so a name of 60 two-byte characters  *)
(* is refused.                                                             *)
(***************************************************************************)
C1_ValidDraftIsCreated ==
    (/\ req.op = "create"
     /\ ~CannotDecode(req.body)
     /\ NameInBounds(DraftOf(req.body))
     /\ EmailInBounds(DraftOf(req.body))
     /\ MessageInBounds(DraftOf(req.body))
     /\ req.out1 = NilError)
    => /\ resp.status = StatusCreated
       /\ resp.body.Name = DraftOf(req.body).Name
       /\ resp.body.Email = DraftOf(req.body).Email
       /\ resp.body.Message = DraftOf(req.body).Message
       /\ resp.body.ID > 0
       /\ store # <<>>
       /\ store[Len(store)] = resp.body
       /\ \A i \in 1..(Len(store) - 1) : store[i].ID # resp.body.ID

(***************************************************************************)
(* C2.  A draft that violates at least one length bound (in characters) is *)
(* refused with 400 and exactly the error of the first violated rule in    *)
(* the order name, email, message.                                         *)
(* Violated: a name of one two-byte character passes the byte check.       *)
(***************************************************************************)
C2_FirstViolationReported ==
    (/\ req.op = "create"
     /\ ~CannotDecode(req.body)
     /\ \/ ~NameInBounds(DraftOf(req.body))
        \/ ~EmailInBounds(DraftOf(req.body))
        \/ ~MessageInBounds(DraftOf(req.body)))
    => /\ resp.status = StatusBadRequest
       /\ resp.body = ErrorEnvelope(FirstViolation(DraftOf(req.body)))

(***************************************************************************)
(* C3.  A create request whose draft fails validation issues no store      *)
(* operation: no repository call is made (so no connection is acquired),   *)
(* and the table and the identifier sequence are unchanged.                *)
(***************************************************************************)
C3_RejectedDraftTouchesNoStore ==
    [][ (/\ req.op = "none"
         /\ req'.op = "create"
         /\ ~Decode(req'.body).err
         /\ validateCreateMessage(Decode(req'.body).msg) # NilError)
        => /\ store' = store
           /\ nextID' = nextID
           /\ \A c \in 1..Len(calls') :
                calls'[c].layer \notin {"repository", "database"} ]_vars

\* a draft was refused by validation while the table holds rows
C3_Witness ==
    /\ req.op = "create"
    /\ ~Decode(req.body).err
    /\ validateCreateMessage(Decode(req.body).msg) # NilError
    /\ resp.status = StatusBadRequest
    /\ store # <<>>

(***************************************************************************)
(* C4.  Whenever a store operation fails while a request is served, the    *)
(* status is 500 on the create, list and fetch-by-id endpoints and 503 on  *)
(* the store-checking health endpoint.                                     *)
(* Violated: create answers 400 and fetch-by-id answers 404.               *)
(***************************************************************************)
C4_StoreFailureIsServerError ==
    (req.op # "none" /\ StoreFailed)
    => resp.status = IF req.op = "health" THEN StatusServiceUnavailable
                     ELSE StatusInternalServerError

(***************************************************************************)
(* C5.  The body of an error response does not depend on the text of the   *)
(* driver error: the same request, failing with any other driver text,     *)
(* gets the same response.                                                 *)
(* Violated: create serializes err.Error(), which wraps the driver text.   *)
(***************************************************************************)
C5_EnvelopeHidesDriverText ==
    (req.op # "none" /\ StoreFailed)
    => \A e \in DriverErrs :
         Answer([req EXCEPT !.out1 = IF @ # NilError THEN e ELSE @,
                            !.out2 = IF @ # NilError THEN e ELSE @]).body
           = resp.body

(***************************************************************************)
(* C6.  A POST body that cannot be decoded into the draft shape is         *)
(* answered 400 {"error": "Invalid request body"}; that message is none of *)
(* the validation messages, and neither the service nor the store is       *)
(* invoked.                                                                *)
(***************************************************************************)
C6_MalformedBodyRejected ==
    (req.op = "create" /\ CannotDecode(req.body))
    => /\ resp.status = StatusBadRequest
       /\ resp.body = ErrorEnvelope(<<"Invalid request body">>)
       /\ resp.body.error \notin ValidationMessages
       /\ \A d \in Drafts : validateCreateMessage(d) # resp.body.error
       /\ calls = <<>>

\* a body with a member of the wrong type was refused while rows are stored
C6_Witness ==
    /\ req.op = "create"
    /\ req.body.kind = "object"
    /\ CannotDecode(req.body)
    /\ resp.status = StatusBadRequest
    /\ store # <<>>

(***************************************************************************)
(* C7.  Listing with page < 1 (missing and non-numeric included) gives the *)
(* response of page = 1, and with page_size outside [1,100] the response   *)
(* of page_size = 10, pagination metadata included; the clamped request is *)
(* never refused: it is answered 200 unless the store fails.               *)
(***************************************************************************)
C7_ClampedListingIsDefaultListing ==
    req.op = "list"
    => LET pageClamped == Atoi(req.page).val < 1
           sizeClamped == Atoi(req.pageSize).val \notin 1..PageSizeMax
           effPage     == IF pageClamped THEN 1 ELSE Atoi(req.page).val
           effSize     == IF sizeClamped THEN DefaultPageSize
                          ELSE Atoi(req.pageSize).val
       IN  /\ pageClamped => resp = Answer([req EXCEPT !.page = Itoa(1)])
           /\ sizeClamped =>
                resp = Answer([req EXCEPT !.pageSize = Itoa(DefaultPageSize)])
           /\ (pageClamped /\ resp.status = StatusOK)
                => resp.body.pagination.page = 1
           /\ (sizeClamped /\ resp.status = StatusOK)
                => resp.body.pagination.page_size = DefaultPageSize
           /\ ((pageClamped \/ sizeClamped) /\ ~StoreFailed
                 /\ (effPage - 1) * effSize <= MaxInt)
                => resp.status = StatusOK

\* a listing with a non-numeric page and an oversized page_size, answered
\* with both stored rows
C7_Witness ==
    /\ req.op = "list"
    /\ Atoi(req.page).err
    /\ Atoi(req.pageSize).val > PageSizeMax
    /\ resp.status = StatusOK
    /\ Len(resp.body.messages.elems) = 2

(***************************************************************************)
(* C8.  In every listing response total_pages = ceil(total / page_size)    *)
(* for total >= 0 and page_size in [1,100]; with total = 0 total_pages is  *)
(* 0 and the message list is empty.                                        *)
(***************************************************************************)
Ceil(a, b) == CHOOSE n \in 0..a : n * b >= a /\ (n = 0 \/ (n - 1) * b < a)

C8_TotalPagesIsCeiling ==
    (req.op = "list" /\ resp.status = StatusOK)
    => LET pg == resp.body.pagination
       IN  /\ pg.total >= 0
           /\ pg.page_size \in 1..PageSizeMax
           /\ pg.total_pages = Ceil(pg.total, pg.page_size)
           /\ pg.total = 0 =>
                pg.total_pages = 0 /\ resp.body.messages.elems = <<>>

\* a last page that is not full: total is no multiple of page_size
C8_Witness ==
    /\ req.op = "list"
    /\ resp.status = StatusOK
    /\ resp.body.pagination.total > 0
    /\ resp.body.pagination.total_pages * resp.body.pagination.page_size
         > resp.body.pagination.total

(***************************************************************************)
(* C9.  For page >= 1 and page_size in [1,100] the listing returns the     *)
(* rows in descending created_at, skipping the (page-1)*page_size newest,  *)
(* with exactly min(page_size, max(0, total - offset)) rows, and an offset *)
(* at or beyond the total gives an empty page and no error.                *)
(* Violated: (page-1)*page_size wraps around for a large page.             *)
(***************************************************************************)
C9_PageOfNewestFirst ==
    (/\ req.op = "list"
     /\ ~StoreFailed
     /\ ~Atoi(req.page).err /\ Atoi(req.page).val >= 1
     /\ ~Atoi(req.pageSize).err /\ Atoi(req.pageSize).val \in 1..PageSizeMax)
    => LET n      == Len(store)
           size   == Atoi(req.pageSize).val
           offset == (Atoi(req.page).val - 1) * size
           rows   == [i \in 1..n |-> store[req.order[i]]]
           got    == resp.body.messages.elems
       IN  /\ resp.status = StatusOK
           /\ got = SubSeq(rows, offset + 1, Min(n, offset + size))
           /\ Len(got) = Min(size, IF n - offset > 0 THEN n - offset ELSE 0)
           /\ \A i, j \in 1..Len(got) :
                i < j => got[i].CreatedAt >= got[j].CreatedAt
           /\ resp.body.pagination.total = n

C11_IdentifiersFreshAndIncreasing ==
    [][ /\ \A i \in 1..Len(store') : store'[i].ID > 0
        /\ \A i, j \in 1..Len(store') : i < j => store'[i].ID < store'[j].ID
        /\ nextID' >= nextID
        /\ store' # store =>
             /\ \A e \in returned : e.ID < store'[Len(store')].ID
             /\ \A i \in 1..Len(store) : store[i].ID < store'[Len(store')].ID
             /\ store'[Len(store')].ID >= nextID ]_vars

\* a second entity has just been created, after the clock has moved
C11_Witness ==
    /\ req.op = "create"
    /\ resp.status = StatusCreated
    /\ Len(store) = 2
    /\ resp.body = store[2]
    /\ store[1].CreatedAt < store[2].CreatedAt

(***************************************************************************)
(* C12.  No request mutates or deletes an entity: a list, fetch-by-id or   *)
(* health request leaves the table unchanged, the table changes only by a  *)
(* create answered 201, which appends exactly the returned entity, and     *)
(* every stored entity keeps all six fields in the next state (the count   *)
(* never decreases).                                                       *)
(***************************************************************************)
C12_EntitiesAreNeverChanged ==
    [][ /\ Len(store') >= Len(store)
        /\ \A i \in 1..Len(store) : store'[i] = store[i]
        /\ req'.op \notin {"none", "create"} => store' = store
        /\ store' # store =>
             /\ req'.op = "create"
             /\ resp'.status = StatusCreated
             /\ store' = Append(store, resp'.body)
        /\ (req'.op = "create" /\ resp'.status # StatusCreated) => store' = store
      ]_vars

\* a stored entity has been read by a fetch-by-id after a later create
C12_Witness ==
    /\ req.op = "get"
    /\ resp.status = StatusOK
    /\ Len(store) = 2
    /\ resp.body = store[1]

(***************************************************************************)
(* C13.  GET /api/v1/guestbook/{id}: a numeric id that matches no stored   *)
(* entity is answered 404; a non-numeric id is answered 404 as well, never *)
(* 400; in both cases the body has an "error" member.                      *)
(***************************************************************************)
C13_UnknownOrMalformedIdIsNotFound ==
    (/\ req.op # "none"
     /\ req.method = "GET"
     /\ req.path.base = "/api/v1/guestbook/"
     /\ \/ req.path.id = <<>>
        \/ ~AllDigits(req.path.id)
        \/ \A i \in 1..Len(store) : store[i].ID # Magnitude(req.path.id, 0))
    => /\ resp.status = StatusNotFound
       /\ resp.status # StatusBadRequest
       /\ "error" \in DOMAIN resp.body

\* a numeral beyond the int range, which the route takes and Atoi refuses
C13_Witness ==
    /\ req.op = "get"
    /\ req.path = GuestBookIdPath(BeyondInt)
    /\ resp.status = StatusNotFound
    /\ store # <<>>

(***************************************************************************)
(* C14.  A request whose path matches no registered route is answered 404  *)
(* with error "Not Found"; a request to a registered path with a method    *)
(* that is not registered for it is answered 405 with error "Method Not    *)
(* Allowed"; in both envelopes path and method are those of the request.   *)
(***************************************************************************)
C14_UnroutedRequestsGetFullEnvelope ==
    req.op # "none"
    => LET registered == \E i \in 1..Len(Routes) : PathMatches(Routes[i], req.path)
           allowed    == \E i \in 1..Len(Routes) :
                            PathMatches(Routes[i], req.path)
                            /\ Routes[i].method = req.method
       IN  /\ ~registered =>
                /\ resp.status = StatusNotFound
                /\ resp.body.error = <<"Not Found">>
                /\ resp.body.path = req.path
                /\ resp.body.method = req.method
           /\ (registered /\ ~allowed) =>
                /\ resp.status = StatusMethodNotAllowed
                /\ resp.body.error = <<"Method Not Allowed">>
                /\ resp.body.path = req.path
                /\ resp.body.method = req.method

\* DELETE of an existing message: the path is routed, the method is not
C14_Witness ==
    /\ req.op = "notallowed"
    /\ req.method = "DELETE"
    /\ req.path = GuestBookIdPath(Itoa(1))
    /\ store # <<>>
    /\ resp.status = StatusMethodNotAllowed

(***************************************************************************)
(* C19.  No store operation is retried: while one request is served each   *)
(* of Create, GetByID, GetAll and Count is called at most once, a failed   *)
(* repository call is the last call of the request (after a failed GetAll  *)
(* Count is not called), and a failed GetMessages returns no partial       *)
(* result: a nil page and total 0.                                         *)
(***************************************************************************)
C19_NoRetryNoPartialResult ==
    req.op \in {"create", "list", "get"}
    => /\ \A fn \in {"Create", "GetByID", "GetAll", "Count"} :
            Cardinality({ c \in 1..Len(calls) :
                            calls[c].layer = "repository" /\ calls[c].fn = fn }) <= 1
       /\ \A c \in 1..Len(calls) :
            (calls[c].layer = "repository" /\ calls[c].err # NilError)
            => c = Len(calls)
       /\ (\E c \in 1..Len(calls) : calls[c].fn = "GetAll" /\ calls[c].err # NilError)
            => ~\E c \in 1..Len(calls) : calls[c].fn = "Count"
       /\ req.op = "list" =>
            LET r == GetMessages(store, req.order, parsePage(req.page),
                                 parsePageSize(req.pageSize), req.out1, req.out2)
            IN  r.err # NilError =>
                  /\ r.messages = NilSlice
                  /\ r.total = 0
                  /\ calls[1].err = r.err
                  /\ resp.status = StatusInternalServerError

\* the page was fetched from a table with rows, then Count failed
C19_Witness ==
    /\ req.op = "list"
    /\ store # <<>>
    /\ Len(calls) = 3
    /\ calls[2].fn = "GetAll" /\ calls[2].err = NilError
    /\ calls[3].fn = "Count" /\ calls[3].err # NilError
    /\ resp.status = StatusInternalServerError

(***************************************************************************)
(* C20.  GET /api/v1/health is answered 200 exactly when the ping of the   *)
(* store succeeds and 503 otherwise; GET /health is answered 200 with      *)
(* status "healthy" whatever the store holds, without consulting it.       *)
(***************************************************************************)
C20_HealthReflectsPing ==
    /\ req.op = "health" =>
         /\ resp.status = StatusOK <=> req.out1 = NilError
         /\ resp.status = StatusServiceUnavailable <=> req.out1 # NilError
         /\ Len(calls) = 1 /\ calls[1].fn = "Health"
    /\ req.op = "liveness" =>
         /\ resp.status = StatusOK
         /\ resp.body.status = "healthy"
         /\ calls = <<>>

\* the ping failed while the table holds rows
C20_Witness ==
    /\ req.op = "health"
    /\ req.out1 # NilError
    /\ resp.status = StatusServiceUnavailable
    /\ store # <<>>

(***************************************************************************)
(* C15.  On shutdown the pool is closed only after the requests in flight  *)
(* have been drained or the grace period has expired: a request that is    *)
(* still to issue a store statement within the grace period has an open    *)
(* pool, and no request finds the pool closed when it reaches its store    *)
(* statement.                                                              *)
(* Violated: Shutdown closes the pool first and stops the listener after.  *)
(***************************************************************************)
C15_PoolClosedAfterDrain ==
    \A r \in BagToSet(inflight) :
      /\ r.failed # "closed pool"
      /\ (r.pc = "handler" /\ server.pc # "forced") => pool.state = "open"

(***************************************************************************)
(* C16.  The schema is initialized at most once per process, by Start, and *)
(* has succeeded before the routes are registered, before the listener is  *)
(* up and before any request is served; when connecting or initializing    *)
(* fails, Start returns the error and the server never registers routes,   *)
(* listens or serves.                                                      *)
(***************************************************************************)
C16_SchemaOnceBeforeServing ==
    [][ /\ server'.schemaInits <= 1
        /\ server'.schemaInits # server.schemaInits => server.pc = "initialize"
        /\ server'.routes => (server'.schemaReady /\ server'.schemaInits = 1)
        /\ server'.listener = "listening" => (server'.schemaReady /\ server'.routes)
        /\ inflight' # EmptyBag => server'.schemaReady
        /\ (server.pc = "main" /\ pool'.state # "open") => server'.startErr # NilError
        /\ (server.pc = "create_table" /\ ~server'.schemaReady)
             => server'.startErr # NilError
        /\ server'.startErr # NilError =>
             /\ server'.pc = "exit"
             /\ ~server'.routes
             /\ server'.listener = "none"
             /\ inflight' = EmptyBag
        /\ server.startErr # NilError => server' = server ]_vars

\* CreateTable has failed and Start has returned its error
C16_Witness ==
    /\ server.pc = "exit"
    /\ server.schemaInits = 1
    /\ ~server.schemaReady
    /\ server.startErr # NilError
    /\ pool.inUse = 0

(***************************************************************************)
(* C17.  When a request is canceled while one of its store statements is   *)
(* in flight, the statement runs under a context that is done, so that it  *)
(* is aborted, and a request whose statement was aborted is answered with  *)
(* the status of a store failure (500, for the health endpoint 503); this  *)
(* for every endpoint that touches the store.                              *)
(* Violated: HealthHandlerWithDB pings under context.Background(); create  *)
(* and fetch-by-id answer 400 and 404.                                     *)
(***************************************************************************)
C17_CanceledRequestAbortsStatement ==
    \A r \in BagToSet(inflight) :
      /\ (r.canceled /\ r.pc = "stmt") => CtxDone(r)
      /\ (r.pc = "done" /\ r.failed = "canceled") =>
           r.status = IF r.op = "health" THEN StatusServiceUnavailable
                      ELSE StatusInternalServerError

(***************************************************************************)
(* C18.  Every repository operation holds at most one connection and has   *)
(* given it back when it returns, however it ends (query error, scan       *)
(* error, iteration error included): the connections in use are exactly    *)
(* those of the statements in flight, never more than MaxConns, and none   *)
(* when no request is being served.                                        *)
(***************************************************************************)
RECURSIVE HeldBy(_)
HeldBy(rs) ==
    IF rs = {} THEN 0
    ELSE LET r == CHOOSE x \in rs : TRUE
         IN  r.held * CopiesIn(r, inflight) + HeldBy(rs \ {r})

C18_ConnectionsAreReleased ==
    /\ \A r \in BagToSet(inflight) :
         /\ r.held \in {0, 1}
         /\ r.pc # "stmt" => r.held = 0
    /\ server.held \in {0, 1}
    /\ server.pc # "create_table" => server.held = 0
    /\ pool.inUse = HeldBy(BagToSet(inflight)) + server.held
    /\ pool.inUse <= MaxConns
    /\ (inflight = EmptyBag /\ server.pc # "create_table") => pool.inUse = 0

\* a row of GetAll failed to scan; the pool is used up again by the
\* statement of another request
C18_Witness ==
    /\ pool.inUse = MaxConns
    /\ \E r \in BagToSet(inflight) : r.pc = "done" /\ r.failed = "scan"
    /\ \E r \in BagToSet(inflight) : r.pc = "stmt"

C23_CorsMiddleware ==
    req.op = "middleware"
    => /\ Get(resp.header, "Access-Control-Allow-Origin") = "*"
       /\ Get(resp.header, "Access-Control-Allow-Methods")
            = "GET, POST, PUT, DELETE, OPTIONS"
       /\ Get(resp.header, "Access-Control-Allow-Headers")
            = "Content-Type, Authorization"
       /\ req.method = "OPTIONS" => resp.status = StatusOK /\ calls = <<>>
       /\ req.method # "OPTIONS"
            => /\ Len(calls) = 1
               /\ calls[1].layer = "handler"
               /\ resp.status = req.next.status
               /\ resp.body = req.next.body

\* a preflight in front of a handler that would have answered 500
C23_Witness ==
    /\ req.op = "middleware"
    /\ req.method = "OPTIONS"
    /\ req.next.status = StatusInternalServerError
    /\ resp.status = StatusOK

(***************************************************************************)
(* C30  With the routes and the middleware that RegisterRoutes registers,  *)
(* an OPTIONS preflight to a registered API path is answered 200 with the  *)
(* three Access-Control-Allow-* headers, and the 404 and 405 default       *)
(* responses carry these headers too.                                      *)
(***************************************************************************)
C30_PreflightAndDefaultsCarryCors ==
    LET cors == \A h \in DOMAIN CorsHeaders : Get(resp.header, h) = CorsHeaders[h]
        registered == \E i \in 1..Len(Routes) : PathMatches(Routes[i], req.path)
    IN  /\ (req.op # "none" /\ req.method = "OPTIONS" /\ registered)
             => resp.status = StatusOK /\ cors
        /\ req.op \in {"notfound", "notallowed"} => cors

(***************************************************************************)
(* C24  When a listing matches no entity (the store is empty, or the       *)
(* offset is at or beyond the total), the "messages" member of the 200     *)
(* response is an empty JSON array and not null, on the real data access   *)
(* path as well as for the test double.                                    *)
(***************************************************************************)
C24_EmptyListingIsArray ==
    (req.op = "list" /\ resp.status = StatusOK)
    => LET mock == MockGetMessages(store, parsePage(req.page),
                                   parsePageSize(req.pageSize))
       IN  /\ resp.body.messages.elems = <<>>
                => EncodeSlice(resp.body.messages).json = "array"
           /\ mock.messages.elems = <<>>
                => EncodeSlice(mock.messages).json = "array"

(***************************************************************************)
(* C27  For every page value, numerals beyond the machine int range        *)
(* included, and every effective page size in [1,100], the offset handed   *)
(* to the store is the mathematical product (page-1)*page_size, not        *)
(* wrapped and not negative, so that an arbitrarily large page is answered *)
(* 200 with an empty page and never with a store error.                    *)
(***************************************************************************)
C27_OffsetIsExactProduct ==
    (req.op = "list" /\ ~StoreFailed)
    => LET page     == parsePage(req.page)
           pageSize == parsePageSize(req.pageSize)
           product  == (page - 1) * pageSize
       IN  /\ WrapInt(product) = product
           /\ resp.status = StatusOK
           /\ product >= Len(store) => resp.body.messages.elems = <<>>

(***************************************************************************)
(* C28  In an unchanging store, for every page size in [1,100], the pages  *)
(* 1..total_pages put one after the other hold every stored entity exactly *)
(* once, also when several entities share a creation timestamp, and every  *)
(* page beyond total_pages is empty.                                       *)
(***************************************************************************)
C28_PagesPartitionTheStore ==
    (req.op = "list" /\ ~StoreFailed /\ resp.status = StatusOK)
    => LET last == resp.body.pagination.total_pages
           \* page k of the same listing, the store delivering order o
           pageOf(k, o) ==
             Answer([req EXCEPT !.page = Itoa(k), !.order = o]).body.messages.elems
       IN  /\ \A f \in [1..last -> Orders(store)] :
                LET cat[k \in 0..last] ==
                      IF k = 0 THEN <<>> ELSE cat[k - 1] \o pageOf(k, f[k])
                IN  /\ Len(cat[last]) = Len(store)
                    /\ \A i \in 1..Len(store) :
                         \E j \in 1..Len(cat[last]) : cat[last][j] = store[i]
           /\ \A o \in Orders(store) : pageOf(last + 1, o) = <<>>

(***************************************************************************)
(* C29  If the HTTP listener cannot be started after the database is       *)
(* initialized (the port is already bound), the failure is reported to the *)
(* caller of Start, so that main exits non-zero; the process never stays   *)
(* running, waiting for a signal, without a listening server.              *)
(***************************************************************************)
C29_ListenFailureIsReported ==
    server.listener = "failed"
    => server.startErr # NilError /\ server.pc # "serving"

(***************************************************************************)
(* C22  EnsureSchema is idempotent: called any number of times on a store  *)
(* whose schema already exists it returns no error and leaves every stored *)
(* entity and the identifier sequence unchanged; it fails only when the    *)
(* store cannot execute the statement.                                     *)
(***************************************************************************)
C22_EnsureSchemaIdempotent ==
    [][ (server.pc = "create_table" /\ server'.pc # "create_table" /\ schema)
        => /\ schema'
           /\ store' = store
           /\ nextID' = nextID
           /\ server'.startErr # NilError
                => \E e \in DriverErrs :
                     server'.startErr
                       = Errorf("failed to create guest_book_messages table: ", e)
           \* and once more, and again
           /\ LET db    == Database(schema', store', nextID')
                  again == CreateTable(db, NilError)
              IN  /\ again = [db |-> db, err |-> NilError]
                  /\ CreateTable(again.db, NilError) = again ]_vars

\* Start has initialized a database that already held the table and an
\* entity, and goes on
C22_Witness ==
    /\ server.pc = "register"
    /\ server.schemaReady
    /\ schema
    /\ Len(store) = 1
    /\ nextID = 2

(***************************************************************************)
(* C25  The page and the total of one ListMessages call describe one       *)
(* consistent state of the store also when CreateMessage requests          *)
(* interleave with it: the page returned is the page that a store holding  *)
(* exactly total entities yields, and a page-1 response never reports a    *)
(* total above 0 together with an empty list.                              *)
(***************************************************************************)
C25_PageAndTotalAreOneSnapshot ==
    \A r \in BagToSet(inflight) :
      (r.op = "list" /\ r.pc = "respond" /\ r.resp.status = StatusOK)
      => LET pg       == r.resp.body.pagination
             got      == r.resp.body.messages.elems
             \* rows are only ever appended: the store when it held total rows
             snapshot == SubSeq(store, 1, pg.total)
         IN  /\ \E o \in Orders(snapshot) :
                  got = GetAll(snapshot, o, pg.page_size,
                               (pg.page - 1) * pg.page_size, NilError).messages.elems
             /\ (pg.page = 1 /\ pg.total > 0) => got # <<>>

(***************************************************************************)
(* C26  For any interleaving of N concurrent CreateMessage requests with   *)
(* valid drafts on an available store, every request returns a distinct    *)
(* identifier, the fields of every returned entity are those of its own    *)
(* request's draft, and the store then holds exactly N more entities.      *)
(***************************************************************************)
C26_ConcurrentCreatesAreIsolated ==
    LET created == { r \in BagToSet(inflight) :
                       r.op = "create" /\ r.resp.status = StatusCreated }
    IN  /\ \A r \in created :
             /\ CopiesIn(r, inflight) = 1
             /\ JString(r.resp.body.Name) = r.body.name
             /\ JString(r.resp.body.Email) = r.body.email
             /\ JString(r.resp.body.Message) = r.body.message
             /\ \E i \in 1..Len(store) : store[i] = r.resp.body
             /\ \A r2 \in created \ {r} : r2.resp.body.ID # r.resp.body.ID
        /\ \A r \in BagToSet(inflight) :
             (r.op = "create" /\ r.pc = "respond" /\ r.out = NilError)
             => r.resp.status = StatusCreated
        /\ \A i, j \in 1..Len(store) : i # j => store[i].ID # store[j].ID
        /\ \A e \in returned : \E i \in 1..Len(store) : store[i] = e
        /\ Cardinality(returned) = Len(store)

\* two creates with different drafts, served at the same time, have both
\* been answered
C26_Witness ==
    \E r1, r2 \in BagToSet(inflight) :
      /\ r1.op = "create" /\ r2.op = "create"
      /\ r1.resp.status = StatusCreated /\ r2.resp.status = StatusCreated
      /\ r1.body # r2.body
      /\ r1.resp.body.ID = 2 /\ r2.resp.body.ID = 1
      /\ r1.resp.body.CreatedAt = r2.resp.body.CreatedAt
====
